---- MODULE Spec2Model ----
(***************************************************************************)
(* Authentication backend of resume-analyzer (express-backend).            *)
(*                                                                         *)
(* The store (users, verification tokens, password-reset tokens), the      *)
(* clock and the last request/response exchange are the state.  Each       *)
(* handler of the auth controller is one action that runs the whole        *)
(* handler: validation, store lookups and mutations, e-mail sends, the     *)
(* session cookie and the response.                                        *)
(*                                                                         *)
(* Time is counted in hours.  Random values (verification codes, salts)    *)
(* are nondeterministic choices; a 256-bit reset token and a database id   *)
(* are fresh values.                                                       *)
(***************************************************************************)
EXTENDS Integers, Sequences, FiniteSets, TLC

VARIABLES
    users,      \* the user table
    vtokens,    \* the verificationToken table
    rtokens,    \* the passwordResetToken table
    nextVId,    \* the id of the next verificationToken record
    nextRId,    \* the id of the next passwordResetToken record
    now,        \* the clock
    req,        \* the request being answered, NoReq between requests
    res,        \* the response to it
    procs,      \* the resetPassword requests in flight (concurrent runs)
    plain,      \* history: for each user that signup created, the password
                \* signup or resetPassword stored last, before hashing
                \* (stored), and the one stored last by signup or by a
                \* resetPassword that answered 200 (acked)
    env,        \* process.env: NODE_ENV and COOKIE_DOMAIN
    jar         \* the cookies the client's browser holds for the server

vars ==
    <<users, vtokens, rtokens, nextVId, nextRId, now, req, res, procs, plain,
      env, jar>>

store == <<users, vtokens, rtokens, nextVId, nextRId>>

-----------------------------------------------------------------------------
(* Bounds of the model.                                                    *)

\* verification-token records ever created
MaxVTokens == 2

\* the values crypto.randomBytes(32).toString("hex") returns, in the order
\* it returns them: no value comes twice
ResetTokenPool == <<"9f2c41ab">>

\* a well-formed reset token that was never issued
UnknownResetToken == "00000000"

\* well-formed e-mail addresses that clients use
Emails == {"a@x.io", "b@x.io"}

\* what a request may carry as e-mail: a well-formed one, nothing, garbage
EmailInputs == Emails \cup {"", "not-an-email"}

Passwords == {"pw1", "pw2"}

PasswordInputs == Passwords \cup {""}

\* the passwords clients choose when they sign up
SignupPasswords == {"pw1"}

Names == {"Ann"}

NameInputs == Names \cup {""}

\* six-digit verification codes (two of the 900000)
Codes == {"111111", "222222"}

\* bcrypt salts
Salts == {"s1"}

\* values nanoid(8) may return
NanoIds == {"V1StGXR8"}

-----------------------------------------------------------------------------
(* Program constants, in hours.                                            *)

\* 1000 * 60 * 60 * 24 ms
VerificationTtl == 24

\* 1000 * 60 * 60 ms
ResetTtl == 1

\* expiresIn: "7d"
SessionTtl == 168

JWT_SECRET == "server-secret"

\* a key that is not the server's
OtherKey == "attacker-key"

\* the instants the clock visits: the start, and the moments a reset token,
\* a verification code and a session token issued at the start expire
Instants == {0, ResetTtl, VerificationTtl, SessionTtl}

-----------------------------------------------------------------------------
(* Library functions, modelled by what they compute.                       *)

\* a check that lets every string through
isEmailOfAnything(e) == TRUE

\* validator.isEmail
isEmail(e) == e \in Emails

\* bcryptjs.hash(password, rounds) with the salt it drew
Hash(password, salt) ==
    "$2b$10$" \o salt \o "$H(" \o salt \o "," \o password \o ")"

\* bcryptjs.compare(password, hash): rehash with the salt the hash carries
Compare(password, hash) == \E s \in Salts : Hash(password, s) = hash

\* the signature of a JWT payload under a key
Mac(key, userId, email, iat, exp) == <<"HS256", key, userId, email, iat, exp>>

\* jwt.sign({userId, email}, key, {expiresIn: "7d"}) at time t
JwtSign(userId, email, key, t) ==
    [userId |-> userId, email |-> email, iat |-> t, exp |-> t + SessionTtl,
     sig |-> Mac(key, userId, email, t, t + SessionTtl)]

\* jwt.verify that checks the signature and never looks at exp
JwtVerifyIgnoringExp(token, key, t) ==
    token.sig = Mac(key, token.userId, token.email, token.iat, token.exp)

\* a verification that also refuses every token once a password-reset
\* token has been used
JwtVerifyVoidAfterReset(token, key, t) ==
    /\ token.sig = Mac(key, token.userId, token.email, token.iat, token.exp)
    /\ t < token.exp
    /\ \A i \in 1 .. nextRId - 1 : \E r \in rtokens : r.id = i

\* jwt.verify(token, key) at time t: does not throw
JwtVerify(token, key, t) ==
    /\ token.sig = Mac(key, token.userId, token.email, token.iat, token.exp)
    /\ t < token.exp

-----------------------------------------------------------------------------
(* The store.                                                              *)

\* prisma.user.findUnique({where: {email}}): the set holding the user, or {}
FindUserByEmail(email) == {u \in users : u.email = email}

\* prisma.user.findUnique({where: {id}})
FindUserById(id) == {u \in users : u.id = id}

\* the id prisma gives a new user
NewUserId == Cardinality(users) + 1

\* prisma.user.update({where: {id}, data: {isVerified: true}})
MarkVerified(id) ==
    {IF u.id = id THEN [u EXCEPT !.isVerified = TRUE] ELSE u : u \in users}

\* an update that also asks the user to verify the e-mail again
SetPasswordAndUnverify(id, hashed) ==
    {IF u.id = id THEN [u EXCEPT !.password = hashed, !.isVerified = FALSE]
     ELSE u : u \in users}

\* prisma.user.update({where: {id}, data: {password}})
SetPassword(id, hashed) ==
    {IF u.id = id THEN [u EXCEPT !.password = hashed] ELSE u : u \in users}

-----------------------------------------------------------------------------
(* Requests and responses.                                                 *)

NoReq ==
    [op |-> "none", email |-> "", password |-> "", name |-> "", code |-> "",
     token |-> "", cookie |-> {}, idToken |-> "", payload |-> {}]

Request(op) == [NoReq EXCEPT !.op = op]

NoRes ==
    [status |-> 0, message |-> "", cookie |-> {}, mails |-> <<>>,
     userData |-> {}]

\* res.status(s); throw new Error(m): no cookie, no body but the message
Fail(s, m, mails) ==
    [status |-> s, message |-> m, cookie |-> {}, mails |-> mails,
     userData |-> {}]

UserData(u) == [userId |-> u.id, email |-> u.email, isVerified |-> u.isVerified]

\* a token signed over {userId} alone
generateTokenWithoutEmail(userId, email) ==
    JwtSign(userId, "", JWT_SECRET, now)

\* generateTokenAndSetCookie(res, userId, email): the token the cookie holds
generateTokenAndSetCookie(userId, email) ==
    JwtSign(userId, email, JWT_SECRET, now)

Mail(kind, to, body) == [kind |-> kind, to |-> to, body |-> body]

\* process.env of the deployed server; "" stands for a variable that is
\* not set
Production == [NODE_ENV |-> "production", COOKIE_DOMAIN |-> ".x.io"]

Init ==
    /\ users = {}
    /\ vtokens = {}
    /\ rtokens = {}
    /\ nextVId = 1
    /\ nextRId = 1
    /\ now = 0
    /\ req = NoReq
    /\ res = NoRes
    /\ procs = <<>>
    /\ plain = <<>>
    /\ env = Production
    /\ jar = {}

-----------------------------------------------------------------------------
(* signup                                                                  *)

\* a lookup by the wrong column
userFoundByName(email) == {u \in users : u.name = email} # {}

\* a lookup that only counts users who verified their e-mail
userAlreadyVerified(email) ==
    \E u \in FindUserByEmail(email) : u.isVerified

\* userAlreadyExists: prisma.user.findUnique({where: {email}}) found a user
userAlreadyExists(email) == FindUserByEmail(email) # {}

\* prisma.user.create({data: {email, password, name}}): isVerified defaults
\* to false
CreateUser(email, hashedPassword, name) ==
    [id |-> NewUserId, email |-> email, name |-> name,
     password |-> hashedPassword, isVerified |-> FALSE]

signup(email, password, name) ==
    /\ req' = [Request("signup") EXCEPT !.email = email,
                  !.password = password, !.name = name]
    /\ UNCHANGED <<rtokens, nextRId, now, procs, env>>
    /\ IF email = "" \/ name = "" \/ password = ""
       THEN /\ res' = Fail(400, "All fields are required", <<>>)
            /\ UNCHANGED <<users, vtokens, nextVId>>
       ELSE IF ~isEmail(email)
       THEN /\ res' = Fail(400, "Please enter a valid email", <<>>)
            /\ UNCHANGED <<users, vtokens, nextVId>>
       ELSE IF userAlreadyExists(email)
       THEN /\ res' = Fail(400, "User already exists", <<>>)
            /\ UNCHANGED <<users, vtokens, nextVId>>
       ELSE \E code \in Codes, salt \in Salts, failAt \in 0..2 :
            LET user == CreateUser(email, Hash(password, salt), name)
                welcome == Mail("welcome", user.email, user.name)
                verification == Mail("verification", user.email, code)
            IN  /\ nextVId <= MaxVTokens
                /\ users' = users \cup {user}
                /\ vtokens' = vtokens \cup
                      {[id |-> nextVId, token |-> code,
                        expiresAt |-> now + VerificationTtl,
                        userId |-> user.id]}
                /\ nextVId' = nextVId + 1
                /\ res' =
                     IF failAt = 1
                     THEN Fail(500, "Failed to send welcome email", <<>>)
                     ELSE IF failAt = 2
                     THEN Fail(500, "Failed to send verification email",
                               <<welcome>>)
                     ELSE [status |-> 201,
                           message |-> "User created successfully",
                           cookie |->
                             {generateTokenAndSetCookie(user.id, user.email)},
                           mails |-> <<welcome, verification>>,
                           userData |-> {UserData(user)}]

-----------------------------------------------------------------------------
(* verifyEmail                                                             *)

\* the same query without userId
VerificationTokensOfAnyUser(userId, code, t) ==
    {v \in vtokens : v.token = code /\ v.expiresAt > t}

\* the same query with expiresAt: {gte: new Date()}
VerificationTokensNotPast(userId, code, t) ==
    {v \in vtokens : v.userId = userId /\ v.token = code /\ v.expiresAt >= t}

\* prisma.verificationToken.findFirst({where: {userId, token: code,
\*                                     expiresAt: {gt: new Date()}}})
\* may return any of these records (no orderBy)
ValidVerificationTokens(userId, code, t) ==
    {v \in vtokens : v.userId = userId /\ v.token = code /\ v.expiresAt > t}

\* a delete that removes nothing
KeepVerificationToken(id) == vtokens

\* a deleteMany of every record of the user who owns the record
DeleteVerificationTokensOfUser(id) ==
    {v \in vtokens : \A w \in vtokens : w.id = id => v.userId # w.userId}

\* prisma.verificationToken.delete({where: {id}})
DeleteVerificationToken(id) == {v \in vtokens : v.id # id}

verifyEmail(code, email) ==
    /\ req' = [Request("verifyEmail") EXCEPT !.code = code, !.email = email]
    /\ UNCHANGED <<rtokens, nextVId, nextRId, now, procs, env>>
    /\ IF code = "" \/ email = ""
       THEN /\ res' = Fail(400, "Please fill all the details", <<>>)
            /\ UNCHANGED <<users, vtokens>>
       ELSE IF ~isEmail(email)
       THEN /\ res' = Fail(400, "Please enter a valid email", <<>>)
            /\ UNCHANGED <<users, vtokens>>
       ELSE IF FindUserByEmail(email) = {}
       THEN /\ res' = Fail(404, "User not found", <<>>)
            /\ UNCHANGED <<users, vtokens>>
       ELSE \E user \in FindUserByEmail(email) :
            IF ValidVerificationTokens(user.id, code, now) = {}
            THEN /\ res' = Fail(403, "Invalid or expired verification code",
                                <<>>)
                 /\ UNCHANGED <<users, vtokens>>
            ELSE \E validToken \in ValidVerificationTokens(user.id, code, now) :
                 LET updatedUser == [user EXCEPT !.isVerified = TRUE]
                 IN  /\ users' = MarkVerified(user.id)
                     /\ vtokens' = DeleteVerificationToken(validToken.id)
                     /\ res' =
                          [status |-> 200,
                           message |-> "Email verified successfully",
                           cookie |-> {generateTokenAndSetCookie(
                                          updatedUser.id, updatedUser.email)},
                           mails |-> <<>>,
                           userData |-> {UserData(updatedUser)}]

-----------------------------------------------------------------------------
(* regenerateVerificationToken                                             *)

regenerateVerificationToken(email) ==
    /\ req' = [Request("regenerateVerificationToken") EXCEPT !.email = email]
    /\ UNCHANGED <<users, rtokens, nextRId, now, procs, env>>
    /\ IF email = ""
       THEN /\ res' = Fail(400, "Please fill all the details", <<>>)
            /\ UNCHANGED <<vtokens, nextVId>>
       ELSE IF ~isEmail(email)
       THEN /\ res' = Fail(400, "Please enter a valid email", <<>>)
            /\ UNCHANGED <<vtokens, nextVId>>
       ELSE IF FindUserByEmail(email) = {}
       THEN /\ res' = Fail(400, "Invalid user", <<>>)
            /\ UNCHANGED <<vtokens, nextVId>>
       ELSE \E user \in FindUserByEmail(email) :
            IF user.isVerified
            THEN /\ res' = Fail(400, "User already verified", <<>>)
                 /\ UNCHANGED <<vtokens, nextVId>>
            ELSE \E code \in Codes, failAt \in 0..1 :
                 /\ nextVId <= MaxVTokens
                 /\ vtokens' = vtokens \cup
                       {[id |-> nextVId, token |-> code,
                         expiresAt |-> now + VerificationTtl,
                         userId |-> user.id]}
                 /\ nextVId' = nextVId + 1
                 /\ res' =
                      IF failAt = 1
                      THEN Fail(500, "Failed to send verification email", <<>>)
                      ELSE [status |-> 200,
                            message |->
                              "Verification token regenerated successfully",
                            cookie |-> {},
                            mails |-> <<Mail("verification", user.email, code)>>,
                            userData |-> {UserData(user)}]

-----------------------------------------------------------------------------
(* logout                                                                  *)

\* a logout that also drops every outstanding password-reset token
logoutDroppingResetTokens ==
    /\ req' = Request("logout")
    /\ res' = [status |-> 200, message |-> "Logged out successfully",
               cookie |-> {}, mails |-> <<>>, userData |-> {}]
    /\ rtokens' = {}
    /\ UNCHANGED <<users, vtokens, nextVId, nextRId, now, procs, env>>

logout ==
    /\ req' = Request("logout")
    /\ res' = [status |-> 200, message |-> "Logged out successfully",
               cookie |-> {}, mails |-> <<>>, userData |-> {}]
    /\ UNCHANGED <<store, now, procs, env>>

-----------------------------------------------------------------------------
(* login                                                                   *)

login(email, password) ==
    /\ req' = [Request("login") EXCEPT !.email = email, !.password = password]
    /\ UNCHANGED <<store, now, procs, env>>
    /\ IF email = "" \/ password = ""
       THEN res' = Fail(400, "Please provide both email and password", <<>>)
       ELSE IF ~isEmail(email)
       THEN res' = Fail(400, "Please enter a valid email", <<>>)
       ELSE IF FindUserByEmail(email) = {}
       THEN res' = Fail(400, "User does not exist", <<>>)
       ELSE \E user \in FindUserByEmail(email) :
            IF ~Compare(password, user.password)
            THEN res' = Fail(400, "Invalid credentials", <<>>)
            ELSE res' = [status |-> 200,
                         message |-> "User logged in successfully",
                         cookie |->
                           {generateTokenAndSetCookie(user.id, user.email)},
                         mails |-> <<>>,
                         userData |-> {UserData(user)}]

-----------------------------------------------------------------------------
(* forgotPassword                                                          *)

\* crypto.randomBytes(32).toString("hex"): a value no earlier call returned
NewResetToken == ResetTokenPool[nextRId]

forgotPassword(email) ==
    /\ req' = [Request("forgotPassword") EXCEPT !.email = email]
    /\ UNCHANGED <<users, vtokens, nextVId, now, procs, env>>
    /\ IF email = ""
       THEN /\ res' = Fail(400, "Email is required", <<>>)
            /\ UNCHANGED <<rtokens, nextRId>>
       ELSE IF ~isEmail(email)
       THEN /\ res' = Fail(400, "Please enter a valid email", <<>>)
            /\ UNCHANGED <<rtokens, nextRId>>
       ELSE IF FindUserByEmail(email) = {}
       THEN /\ res' = Fail(400, "Invalid credentials", <<>>)
            /\ UNCHANGED <<rtokens, nextRId>>
       ELSE \E user \in FindUserByEmail(email), failAt \in 0..1 :
            /\ nextRId <= Len(ResetTokenPool)
            /\ rtokens' = rtokens \cup
                  {[id |-> nextRId, token |-> NewResetToken,
                    expiresAt |-> now + ResetTtl, userId |-> user.id]}
            /\ nextRId' = nextRId + 1
            /\ res' =
                 IF failAt = 1
                 THEN Fail(500, "Failed to send password reset email", <<>>)
                 ELSE [status |-> 200,
                       message |-> "Password reset link sent to your email",
                       cookie |-> {},
                       mails |-> <<Mail("passwordReset", user.email,
                                        NewResetToken)>>,
                       userData |-> {}]

-----------------------------------------------------------------------------
(* resetPassword                                                           *)

\* prisma.passwordResetToken.findFirst({where: {token,
\*                                      expiresAt: {gt: new Date()}}})
ValidResetTokens(token, t) ==
    {r \in rtokens : r.token = token /\ r.expiresAt > t}

\* a delete that removes nothing
KeepResetToken(id) == rtokens

\* prisma.passwordResetToken.delete({where: {id}})
DeleteResetToken(id) == {r \in rtokens : r.id # id}

resetPassword(token, password) ==
    /\ req' = [Request("resetPassword") EXCEPT !.token = token,
                  !.password = password]
    /\ UNCHANGED <<vtokens, nextVId, nextRId, now, procs, env>>
    /\ IF token = "" \/ password = ""
       THEN /\ res' = Fail(400, "Reset token and new password are required",
                           <<>>)
            /\ UNCHANGED <<users, rtokens>>
       ELSE IF ValidResetTokens(token, now) = {}
       THEN /\ res' = Fail(400, "Invalid or expired reset token", <<>>)
            /\ UNCHANGED <<users, rtokens>>
       ELSE \E resetToken \in ValidResetTokens(token, now),
               salt \in Salts, failAt \in 0..1 :
            /\ users' = SetPassword(resetToken.userId, Hash(password, salt))
            /\ rtokens' = DeleteResetToken(resetToken.id)
            /\ res' =
                 IF FindUserById(resetToken.userId) = {}
                 THEN [status |-> 200, message |-> "Password reset successful",
                       cookie |-> {}, mails |-> <<>>, userData |-> {}]
                 ELSE LET user ==
                            CHOOSE u \in FindUserById(resetToken.userId) : TRUE
                      IN  IF failAt = 1
                          THEN Fail(500,
                                 "Failed to send password reset success email",
                                 <<>>)
                          ELSE [status |-> 200,
                                message |-> "Password reset successful",
                                cookie |-> {},
                                mails |-> <<Mail("resetSuccess", user.email,
                                                 "")>>,
                                userData |-> {}]

-----------------------------------------------------------------------------
(* checkAuth                                                               *)

checkAuth(cookie) ==
    /\ req' = [Request("checkAuth") EXCEPT !.cookie = cookie]
    /\ UNCHANGED <<store, now, procs, env>>
    /\ IF cookie = {}
       THEN res' = Fail(401, "Unauthorized - no token provided", <<>>)
       ELSE \E token \in cookie :
            IF ~JwtVerify(token, JWT_SECRET, now)
            THEN res' = Fail(401, "Unauthorized - Invalid or expired token",
                             <<>>)
            ELSE IF FindUserById(token.userId) = {}
            THEN res' = Fail(401, "Unauthorized - User no longer exists", <<>>)
            ELSE \E user \in FindUserById(token.userId) :
                 res' = [status |-> 200,
                         message |-> "User verified successfully",
                         cookie |-> {}, mails |-> <<>>,
                         userData |-> {UserData(user)}]

-----------------------------------------------------------------------------
(* google                                                                  *)

\* client.verifyIdToken({idToken, audience}) throws for a token Google did
\* not issue for this client
GoogleRejects(idToken) == idToken = "garbage"

\* the create without isVerified: true
CreateGoogleUserUnverified(email, hashedPassword, name) ==
    CreateUser(email, hashedPassword, name)

\* prisma.user.create({data: {email, password, name, isVerified: true}})
CreateGoogleUser(email, hashedPassword, name) ==
    [CreateUser(email, hashedPassword, name) EXCEPT !.isVerified = TRUE]

google(idToken, payload) ==
    /\ req' = [Request("google") EXCEPT !.idToken = idToken,
                  !.payload = payload]
    /\ UNCHANGED <<vtokens, rtokens, nextVId, nextRId, now, procs, env>>
    /\ IF idToken = ""
       THEN /\ res' = Fail(400, "Google ID token is required", <<>>)
            /\ UNCHANGED users
       ELSE IF GoogleRejects(idToken)
       THEN /\ res' = Fail(500, "verifyIdToken failed", <<>>)
            /\ UNCHANGED users
       ELSE IF payload = {}
       THEN /\ res' = Fail(400, "Invalid Google token payload", <<>>)
            /\ UNCHANGED users
       ELSE \E p \in payload :
            IF p.email = "" \/ p.name = ""
            THEN /\ res' = Fail(400,
                              "Google account must have an email and name",
                              <<>>)
                 /\ UNCHANGED users
            ELSE IF ~p.email_verified
            THEN /\ res' = Fail(403, "Email not verified by Google", <<>>)
                 /\ UNCHANGED users
            ELSE IF FindUserByEmail(p.email) = {}
            THEN \E nano \in NanoIds, salt \in Salts, failAt \in 0..1 :
                 LET user == CreateGoogleUser(p.email, Hash(nano, salt),
                                              p.name)
                 IN  /\ users' = users \cup {user}
                     /\ res' =
                          IF failAt = 1
                          THEN Fail(500, "Failed to send welcome email", <<>>)
                          ELSE [status |-> 200,
                                message |-> "User logged in successfully",
                                cookie |-> {generateTokenAndSetCookie(
                                               user.id, user.email)},
                                mails |-> <<Mail("welcome", user.email,
                                                 user.name)>>,
                                userData |-> {[userId |-> user.id,
                                               email |-> user.email,
                                               isVerified |-> TRUE]}]
            ELSE \E user \in FindUserByEmail(p.email) :
                 /\ users' = IF ~user.isVerified THEN MarkVerified(user.id)
                             ELSE users
                 /\ res' = [status |-> 200,
                            message |-> "User logged in successfully",
                            cookie |-> {generateTokenAndSetCookie(
                                           user.id, user.email)},
                            mails |-> <<>>,
                            userData |-> {[userId |-> user.id,
                                           email |-> user.email,
                                           isVerified |-> TRUE]}]

-----------------------------------------------------------------------------
(* The clock.                                                              *)

\* no request is being answered
Idle == req.op = "none"

Tick ==
    /\ Idle
    /\ \E t \in Instants : t > now /\ now' = t
    /\ UNCHANGED <<store, req, res, procs, plain, env, jar>>

\* the response has gone out: the exchange is over
Done ==
    /\ ~Idle
    /\ req' = NoReq
    /\ res' = NoRes
    /\ UNCHANGED <<store, now, procs, plain, env, jar>>

-----------------------------------------------------------------------------

(* The requests clients send: every well-formed one over the bounded sets,  *)
(* and for each field one request where it is missing or malformed.         *)

SignupInputs ==
    [email : Emails, password : SignupPasswords, name : Names] \cup
    {[email |-> e, password |-> "pw1", name |-> "Ann"] :
        e \in EmailInputs \ Emails} \cup
    {[email |-> "a@x.io", password |-> "", name |-> "Ann"],
     [email |-> "a@x.io", password |-> "pw1", name |-> ""]}

VerifyInputs ==
    [code : Codes, email : Emails] \cup
    {[code |-> "111111", email |-> e] : e \in EmailInputs \ Emails} \cup
    {[code |-> "", email |-> "a@x.io"]}

LoginInputs ==
    [email : Emails, password : Passwords \cup NanoIds] \cup
    {[email |-> e, password |-> "pw1"] : e \in EmailInputs \ Emails} \cup
    {[email |-> "a@x.io", password |-> ""]}

\* reset tokens a client may present: the ones forgotPassword may issue, one
\* it never issues, none
ResetInputs ==
    [token : {ResetTokenPool[i] : i \in DOMAIN ResetTokenPool},
     password : Passwords] \cup
    {[token |-> UnknownResetToken, password |-> "pw1"],
     [token |-> "", password |-> "pw1"],
     [token |-> ResetTokenPool[1], password |-> ""]}

\* user ids a session token may name: the ones the store may hold and one more
TokenUserIds == 1 .. Cardinality(Emails) + 1

\* session tokens a client may present: none; one signed with the server's
\* secret at the start or now; one signed with another key; one whose
\* payload was changed after the server signed it
CookieInputs ==
    {{}} \cup
    {{JwtSign(id, "a@x.io", JWT_SECRET, t)} :
        id \in TokenUserIds, t \in {0, now}} \cup
    {{JwtSign(1, "a@x.io", OtherKey, now)},
     {[JwtSign(2, "a@x.io", JWT_SECRET, now) EXCEPT !.userId = 1]},
     {[JwtSign(1, "a@x.io", JWT_SECRET, 0) EXCEPT !.exp = now + SessionTtl]}}

\* what Google says about an id token: nothing, or an account
GoogleInputs ==
    {[idToken |-> "", payload |-> {}],
     [idToken |-> "garbage", payload |-> {}],
     [idToken |-> "id-token", payload |-> {}],
     [idToken |-> "id-token",
      payload |-> {[email |-> "", name |-> "Ann", email_verified |-> TRUE]}],
     [idToken |-> "id-token",
      payload |-> {[email |-> "a@x.io", name |-> "",
                    email_verified |-> TRUE]}]} \cup
    {[idToken |-> "id-token", payload |-> {p}] :
        p \in [email : Emails, name : Names, email_verified : BOOLEAN]}

\* the history variable follows what the handler stored
Observe ==
    plain' =
      IF req'.op = "signup" /\ users' # users
      THEN LET u == CHOOSE u \in users' \ users : TRUE
           IN  (u.id :> [stored |-> req'.password, acked |-> req'.password])
               @@ plain
      ELSE IF req'.op = "resetPassword" /\ rtokens' # rtokens
      THEN LET r == CHOOSE r \in rtokens \ rtokens' : TRUE
           IN  IF r.userId \in DOMAIN plain
               THEN [plain EXCEPT
                       ![r.userId] =
                          [stored |-> req'.password,
                           acked |-> IF res'.status = 200 THEN req'.password
                                     ELSE @.acked]]
               ELSE plain
      ELSE plain

\* a request of a client whose cookies are not followed
Served == Observe /\ UNCHANGED jar

\* the server takes the next request and runs its handler to the end; when
\* the response has gone out it takes the next one; time passes in between
Next ==
    \/ Idle /\ \E r \in SignupInputs :
                  signup(r.email, r.password, r.name) /\ Served
    \/ Idle /\ \E r \in VerifyInputs : verifyEmail(r.code, r.email) /\ Served
    \/ Idle /\ \E e \in EmailInputs : regenerateVerificationToken(e) /\ Served
    \/ Idle /\ logout /\ Served
    \/ Idle /\ \E r \in LoginInputs : login(r.email, r.password) /\ Served
    \/ Idle /\ \E e \in EmailInputs : forgotPassword(e) /\ Served
    \/ Idle /\ \E r \in ResetInputs :
                  resetPassword(r.token, r.password) /\ Served
    \/ Idle /\ \E c \in CookieInputs : checkAuth(c) /\ Served
    \/ Idle /\ \E g \in GoogleInputs : google(g.idToken, g.payload) /\ Served
    \/ Done
    \/ Tick

Spec == Init /\ [][Next]_vars

-----------------------------------------------------------------------------
(* resetPassword, await by await: two requests in flight at once.  Each    *)
(* await of the handler is a step of its own, so the steps of the two      *)
(* requests interleave as the event loop allows.                           *)

Procs == {1, 2}

NoProc ==
    [pc |-> "idle", token |-> "", password |-> "", resetToken |-> {},
     updated |-> FALSE, status |-> 0, message |-> ""]

\* the request arrives; a missing token or password ends it
rpStart(p, token, password) ==
    /\ procs[p].pc = "idle"
    /\ procs' = [procs EXCEPT ![p] =
          IF token = "" \/ password = ""
          THEN [@ EXCEPT !.pc = "done", !.token = token,
                         !.password = password, !.status = 400,
                         !.message =
                            "Reset token and new password are required"]
          ELSE [@ EXCEPT !.pc = "find", !.token = token,
                         !.password = password]]
    /\ UNCHANGED <<store, now, req, res, plain, env, jar>>

\* await prisma.passwordResetToken.findFirst(...)
rpFind(p) ==
    /\ procs[p].pc = "find"
    /\ IF ValidResetTokens(procs[p].token, now) = {}
       THEN procs' = [procs EXCEPT ![p] =
               [@ EXCEPT !.pc = "done", !.status = 400,
                         !.message = "Invalid or expired reset token"]]
       ELSE \E resetToken \in ValidResetTokens(procs[p].token, now) :
               procs' = [procs EXCEPT ![p] =
                  [@ EXCEPT !.pc = "update", !.resetToken = {resetToken}]]
    /\ UNCHANGED <<store, now, req, res, plain, env, jar>>

\* await bcryptjs.hash(...); await prisma.user.update(...)
rpUpdate(p) ==
    /\ procs[p].pc = "update"
    /\ \E resetToken \in procs[p].resetToken, salt \in Salts :
          /\ users' = SetPassword(resetToken.userId,
                                  Hash(procs[p].password, salt))
          /\ plain' = IF resetToken.userId \in DOMAIN plain
                      THEN [plain EXCEPT ![resetToken.userId].stored =
                                            procs[p].password]
                      ELSE plain
    /\ procs' = [procs EXCEPT ![p] = [@ EXCEPT !.pc = "delete",
                                               !.updated = TRUE]]
    /\ UNCHANGED <<vtokens, rtokens, nextVId, nextRId, now, req, res, env, jar>>

\* await prisma.passwordResetToken.delete(...): prisma throws when the
\* record is gone, and the request ends with 500
rpDelete(p) ==
    /\ procs[p].pc = "delete"
    /\ \E resetToken \in procs[p].resetToken :
          IF resetToken \in rtokens
          THEN /\ rtokens' = DeleteResetToken(resetToken.id)
               /\ procs' = [procs EXCEPT ![p] = [@ EXCEPT !.pc = "mail"]]
          ELSE /\ rtokens' = rtokens
               /\ procs' = [procs EXCEPT ![p] =
                     [@ EXCEPT !.pc = "done", !.status = 500,
                               !.message = "Record to delete does not exist"]]
    /\ UNCHANGED <<users, vtokens, nextVId, nextRId, now, req, res, plain, env,
                   jar>>

\* await prisma.user.findUnique(...); await sendResetSuccessEmail(...);
\* res.status(200).json(...)
rpFinish(p) ==
    /\ procs[p].pc = "mail"
    /\ \E failAt \in 0..1 :
          procs' = [procs EXCEPT ![p] =
             IF failAt = 1
             THEN [@ EXCEPT !.pc = "done", !.status = 500,
                     !.message = "Failed to send password reset success email"]
             ELSE [@ EXCEPT !.pc = "done", !.status = 200,
                            !.message = "Password reset successful"]]
    /\ UNCHANGED <<store, now, req, res, plain, env, jar>>

InitRace ==
    /\ users = {}
    /\ vtokens = {}
    /\ rtokens = {}
    /\ nextVId = 1
    /\ nextRId = 1
    /\ now = 0
    /\ req = NoReq
    /\ res = NoRes
    /\ procs = [p \in Procs |-> NoProc]
    /\ plain = <<>>
    /\ env = Production
    /\ jar = {}

\* users sign up and ask for a reset token, one request at a time; two
\* resetPassword requests run await by await beside them
NextRace ==
    \/ Idle /\ \E r \in [email : Emails, password : SignupPasswords,
                         name : Names] :
                  signup(r.email, r.password, r.name) /\ Served
    \/ Idle /\ \E e \in Emails : forgotPassword(e) /\ Served
    \/ Done
    \/ Tick
    \/ Idle /\ \E p \in Procs, r \in ResetInputs :
                  rpStart(p, r.token, r.password)
    \/ Idle /\ \E p \in Procs : rpFind(p)
    \/ Idle /\ \E p \in Procs : rpUpdate(p)
    \/ Idle /\ \E p \in Procs : rpDelete(p)
    \/ Idle /\ \E p \in Procs : rpFinish(p)

SpecRace == InitRace /\ [][NextRace]_vars

-----------------------------------------------------------------------------
(* The session cookie in the browser, under every setting of NODE_ENV and  *)
(* COOKIE_DOMAIN.                                                          *)

\* settings of process.env: NODE_ENV not set, "production", another value;
\* COOKIE_DOMAIN not set, or the parent domain the deployment shares
Envs == [NODE_ENV : {"", "production", "development"},
         COOKIE_DOMAIN : {"", ".x.io"}]

\* the options generateTokenAndSetCookie passes to res.cookie; domain ""
\* is domain: undefined, a host-only cookie
cookieOptions ==
    LET isProduction == IF env.NODE_ENV # ""
                        THEN env.NODE_ENV = "production"
                        ELSE TRUE
    IN  [httpOnly |-> TRUE, secure |-> isProduction, sameSite |-> "strict",
         domain |-> IF isProduction THEN env.COOKIE_DOMAIN ELSE "",
         path |-> "/"]

\* the options logout passes to res.clearCookie
clearCookieOptions ==
    LET isProduction == env.NODE_ENV = "production"
    IN  [httpOnly |-> TRUE, secure |-> isProduction, sameSite |-> "strict",
         domain |-> IF isProduction THEN env.COOKIE_DOMAIN ELSE "",
         path |-> "/"]

\* what makes two cookies the same cookie to a browser (RFC 6265, 5.3)
CookieKey(c) == <<c.name, c.domain, c.path>>

\* the browser stores the cookie a response sets, in place of the one with
\* the same name, domain and path, and on the expired cookie that
\* clearCookie sends it drops the one with that name, domain and path
Browser ==
    jar' =
      IF res'.cookie # {}
      THEN {c \in jar : CookieKey(c) #
                           <<"token", cookieOptions.domain,
                             cookieOptions.path>>}
           \cup {[name |-> "token", value |-> tok,
                  domain |-> cookieOptions.domain,
                  path |-> cookieOptions.path,
                  secure |-> cookieOptions.secure] : tok \in res'.cookie}
      ELSE IF req'.op = "logout"
      THEN {c \in jar : CookieKey(c) #
                           <<"token", clearCookieOptions.domain,
                             clearCookieOptions.path>>}
      ELSE jar

InitCookie ==
    /\ users = {}
    /\ vtokens = {}
    /\ rtokens = {}
    /\ nextVId = 1
    /\ nextRId = 1
    /\ now = 0
    /\ req = NoReq
    /\ res = NoRes
    /\ procs = <<>>
    /\ plain = <<>>
    /\ env \in Envs
    /\ jar = {}

\* one browser signs up, verifies, logs in, signs in with Google and logs
\* out
NextCookie ==
    \/ Idle /\ \E r \in [email : Emails, password : SignupPasswords,
                         name : Names] :
                  signup(r.email, r.password, r.name) /\ Observe /\ Browser
    \/ Idle /\ \E r \in [code : Codes, email : Emails] :
                  verifyEmail(r.code, r.email) /\ Observe /\ Browser
    \/ Idle /\ \E r \in [email : Emails, password : Passwords] :
                  login(r.email, r.password) /\ Observe /\ Browser
    \/ Idle /\ \E p \in [email : Emails, name : Names,
                         email_verified : {TRUE}] :
                  google("id-token", {p}) /\ Observe /\ Browser
    \/ Idle /\ logout /\ Observe /\ Browser
    \/ Done

SpecCookie == InitCookie /\ [][NextCookie]_vars

-----------------------------------------------------------------------------
(* What the claims speak about.                                            *)

\* the user a request names by e-mail, as a set
UserOf(email) == {u \in users : u.email = email}

\* a token is what the server itself issues for its payload
ServerSigned(tok) ==
    tok = [userId |-> tok.userId, email |-> tok.email, iat |-> tok.iat,
           exp |-> tok.iat + SessionTtl,
           sig |-> <<"HS256", JWT_SECRET, tok.userId, tok.email, tok.iat,
                     tok.iat + SessionTtl>>]

-----------------------------------------------------------------------------
(* C1: checkAuth answers 200 with the user's id, email and isVerified      *)
(* exactly when the cookie carries a token signed with the server secret,  *)
(* issued less than 7 days (168 hours) earlier, whose userId is a user in  *)
(* the store; in every other case (no cookie, a forged, altered or expired *)
(* token, a userId not in the store) it answers 401.                       *)
C1_CheckAuth ==
    req.op = "checkAuth" =>
        LET good == {tok \in req.cookie :
                        /\ ServerSigned(tok)
                        /\ now - tok.iat < 168
                        /\ \E u \in users : u.id = tok.userId}
        IN  IF good # {}
            THEN /\ res.status = 200
                 /\ \E tok \in good, u \in users :
                       /\ u.id = tok.userId
                       /\ res.userData =
                            {[userId |-> u.id, email |-> u.email,
                              isVerified |-> u.isVerified]}
            ELSE /\ res.status = 401
                 /\ res.userData = {}

\* a session token issued at an earlier instant is accepted
C1_Witness ==
    /\ req.op = "checkAuth"
    /\ res.status = 200
    /\ \E tok \in req.cookie : tok.iat < now

-----------------------------------------------------------------------------
\* the ids of the verification-token records that were created and are gone:
\* only verifyEmail deletes one, so these are the consumed ones
ConsumedVIds == (1 .. nextVId - 1) \ {v.id : v \in vtokens}

\* the step is the handler of op answering a request
Handles(op) == req.op = "none" /\ req'.op = op

(* C2: a verification code is single-use.  When verifyEmail succeeds it    *)
(* deletes the token record it matched (a record of the user named in the  *)
(* request, holding the submitted code); a deleted record never comes back; *)
(* and a verifyEmail for an existing user for which no remaining record of  *)
(* that user holds the submitted code is rejected with 403 and changes      *)
(* neither table.                                                           *)
C2_SingleUseCode ==
    [][/\ ConsumedVIds \subseteq ConsumedVIds'
       /\ Handles("verifyEmail") =>
            /\ res'.status = 200 =>
                 \E v \in vtokens :
                    /\ v.token = req'.code
                    /\ \E u \in UserOf(req'.email) : v.userId = u.id
                    /\ vtokens' = vtokens \ {v}
                    /\ v.id \in ConsumedVIds'
            /\ \A u \in UserOf(req'.email) :
                 (/\ req'.code # ""
                  /\ \A v \in vtokens :
                        ~(v.userId = u.id /\ v.token = req'.code))
                 => /\ res'.status = 403
                    /\ users' = users
                    /\ vtokens' = vtokens]_vars

\* a code is presented again after the only record ever issued was consumed
C2_Witness ==
    /\ req.op = "verifyEmail"
    /\ res.status = 403
    /\ nextVId = 2
    /\ vtokens = {}
    /\ \E u \in UserOf(req.email) : u.isVerified /\ u.id \in DOMAIN plain

-----------------------------------------------------------------------------
\* the reset tokens that were issued and whose record is gone: only
\* resetPassword deletes one, so these are the consumed ones
ConsumedRTokens ==
    {ResetTokenPool[i] : i \in 1 .. nextRId - 1} \ {r.token : r \in rtokens}

(* C3: a password-reset token is single-use.  When resetPassword changes a *)
(* password or answers 200 it deletes the record it matched; a deleted     *)
(* record never comes back; and every later resetPassword presenting a     *)
(* consumed token is rejected with 400 and changes no password and no      *)
(* token, the message being 'Invalid or expired reset token' whenever the  *)
(* request carries a new password.                                         *)
C3_SingleUseResetToken ==
    [][/\ ConsumedRTokens \subseteq ConsumedRTokens'
       /\ Handles("resetPassword") =>
            /\ (users' # users \/ res'.status = 200) =>
                 \E r \in rtokens :
                    /\ r.token = req'.token
                    /\ rtokens' = rtokens \ {r}
                    /\ req'.token \in ConsumedRTokens'
            /\ req'.token \in ConsumedRTokens =>
                 /\ res'.status = 400
                 /\ users' = users
                 /\ rtokens' = rtokens
                 /\ req'.password # "" =>
                      res'.message = "Invalid or expired reset token"]_vars

\* a consumed token is presented again within the hour of its issue
C3_Witness ==
    /\ req.op = "resetPassword"
    /\ req.token \in ConsumedRTokens
    /\ res.status = 400
    /\ res.message = "Invalid or expired reset token"
    /\ now = 0

-----------------------------------------------------------------------------
(* C4: an expired token is never accepted.  A verification code expires 24 *)
(* hours after its issue and a reset token 1 hour after its issue; the     *)
(* record verifyEmail or resetPassword consumes is one whose expiresAt is  *)
(* still ahead; and a request for which every record it could match is at  *)
(* or past its expiresAt is rejected and changes no user (so no isVerified *)
(* flag and no password) and no token.                                     *)
C4_ExpiredNeverAccepted ==
    [][/\ \A v \in vtokens' \ vtokens : v.expiresAt = now + 24
       /\ \A r \in rtokens' \ rtokens : r.expiresAt = now + 1
       /\ Handles("verifyEmail") =>
            /\ \A v \in vtokens \ vtokens' : now < v.expiresAt
            /\ (\A v \in vtokens :
                  (/\ v.token = req'.code
                   /\ \E u \in UserOf(req'.email) : v.userId = u.id)
                  => now >= v.expiresAt)
               => /\ res'.status >= 400
                  /\ users' = users
                  /\ vtokens' = vtokens
       /\ Handles("resetPassword") =>
            /\ \A r \in rtokens \ rtokens' : now < r.expiresAt
            /\ (\A r \in rtokens : r.token = req'.token => now >= r.expiresAt)
               => /\ res'.status >= 400
                  /\ users' = users
                  /\ rtokens' = rtokens]_vars

\* a reset token is presented at the very instant it expires and is refused
C4_Witness ==
    /\ req.op = "resetPassword"
    /\ res.status = 400
    /\ \E r \in rtokens : r.token = req.token /\ r.expiresAt = now

-----------------------------------------------------------------------------
(* C5 as stated: for a user created by signup, login succeeds exactly when *)
(* the submitted password is the one stored last by signup or by a         *)
(* successful resetPassword, one that answered 200.                        *)
C5_LoginMatchesAckedPassword ==
    req.op = "login" =>
        \A u \in UserOf(req.email) :
           u.id \in DOMAIN plain =>
              (res.status = 200 <=> req.password = plain[u.id].acked)

(* C5, what login does keep: for a user created by signup, login succeeds *)
(* exactly when the submitted password is the one stored last by signup or *)
(* by a resetPassword that found a valid token, whether it then answered   *)
(* 200 or, its confirmation e-mail failing, 500 (lines 351-367: the update *)
(* and the delete come before the e-mail); another password gets 400       *)
(* 'Invalid credentials'; no user record holds a password as submitted.    *)
C5_LoginMatchesStoredPassword ==
    /\ \A u \in users : u.password \notin PasswordInputs \cup NanoIds
    /\ req.op = "login" =>
         \A u \in UserOf(req.email) :
            u.id \in DOMAIN plain =>
               /\ res.status = 200 <=> req.password = plain[u.id].stored
               /\ (req.password # plain[u.id].stored /\ req.password # "") =>
                     /\ res.status = 400
                     /\ res.message = "Invalid credentials"

\* a reset that answered 500 has replaced the password chosen at signup,
\* which login now refuses
C5_Witness ==
    /\ req.op = "login"
    /\ req.password = "pw1"
    /\ res.message = "Invalid credentials"
    /\ \E u \in UserOf(req.email) :
          /\ u.id \in DOMAIN plain
          /\ plain[u.id].stored = "pw2"
          /\ plain[u.id].acked = "pw1"

-----------------------------------------------------------------------------
(* C6: verifyEmail changes a user only by setting isVerified of the user   *)
(* whose email is in the request, and only when an unexpired record with   *)
(* the submitted code exists that belongs to that user (every record is    *)
(* created for the user named in the request that created it).  A request  *)
(* answered 404 or 403 changes no user and deletes no token; an unknown    *)
(* well-formed email gets 404, a code with no unexpired record of the user *)
(* gets 403.                                                               *)
C6_VerifyOnlyOwnCode ==
    [][/\ \A v \in vtokens' \ vtokens :
            \E u \in users' : u.email = req'.email /\ v.userId = u.id
       /\ Handles("verifyEmail") =>
            /\ {u.id : u \in users'} = {u.id : u \in users}
            /\ \A u \in users, w \in users' :
                 (w.id = u.id /\ w # u) =>
                    /\ w = [u EXCEPT !.isVerified = TRUE]
                    /\ u.email = req'.email
                    /\ \E v \in vtokens :
                          /\ v.userId = u.id
                          /\ v.token = req'.code
                          /\ v.expiresAt > now
            /\ res'.status \in {403, 404} =>
                 users' = users /\ vtokens' = vtokens
            /\ (req'.code # "" /\ req'.email \in Emails) =>
                 IF UserOf(req'.email) = {}
                 THEN res'.status = 404 /\ users' = users /\ vtokens' = vtokens
                 ELSE \A u \in UserOf(req'.email) :
                        (\A v \in vtokens :
                            ~(/\ v.userId = u.id
                              /\ v.token = req'.code
                              /\ v.expiresAt > now))
                        => res'.status = 403]_vars

\* an unverified user presents a code that only another user's unexpired
\* record holds, and is refused
C6_Witness ==
    /\ req.op = "verifyEmail"
    /\ res.status = 403
    /\ \E u \in UserOf(req.email) :
          /\ ~u.isVerified
          /\ \E v \in vtokens :
                v.token = req.code /\ v.expiresAt > now /\ v.userId # u.id

-----------------------------------------------------------------------------
(* C7: a google sign-in that answers 200 is for an email e that Google     *)
(* reports as verified and leaves exactly one user with email e, verified. *)
(* A user is created only when none with e existed, and a welcome e-mail   *)
(* goes out only with a creation and to e; every user that existed keeps   *)
(* its id, email, name and password, and its isVerified changes only from  *)
(* false to true and only for the user with e on a 200.  When Google       *)
(* reports the email of an account with email and name as not verified the *)
(* answer is 403, the store is unchanged and no cookie is set.  The token  *)
(* tables are never touched.                                               *)
C7_GoogleSignIn ==
    [][Handles("google") =>
         /\ vtokens' = vtokens /\ rtokens' = rtokens
         /\ res'.status = 200 =>
              \E p \in req'.payload :
                 /\ p.email_verified
                 /\ Cardinality({u \in users' : u.email = p.email}) = 1
                 /\ \A u \in users' : u.email = p.email => u.isVerified
                 /\ users' # users /\ UserOf(p.email) = {} =>
                       res'.mails = <<[kind |-> "welcome", to |-> p.email,
                                       body |-> p.name]>>
         /\ \A w \in users' :
              w.id \notin {u.id : u \in users} =>
                 \E p \in req'.payload :
                    /\ p.email_verified
                    /\ w.email = p.email
                    /\ UserOf(p.email) = {}
                    /\ w.isVerified
                    /\ users' = users \cup {w}
         /\ res'.mails # <<>> =>
              /\ Cardinality(users') = Cardinality(users) + 1
              /\ \E p \in req'.payload :
                    Len(res'.mails) = 1 /\ res'.mails[1].to = p.email
         /\ \A u \in users :
              \E w \in users' :
                 /\ w.id = u.id /\ w.email = u.email /\ w.name = u.name
                 /\ w.password = u.password
                 /\ w.isVerified =
                      (u.isVerified \/
                         (res'.status = 200 /\
                            \E p \in req'.payload : p.email = u.email))
         /\ \A p \in req'.payload :
              (p.email # "" /\ p.name # "" /\ ~p.email_verified) =>
                 /\ res'.status = 403
                 /\ users' = users
                 /\ res'.cookie = {}]_vars

\* google signs in a user that signup created and that never used a code
C7_Witness ==
    /\ req.op = "google"
    /\ res.status = 200
    /\ nextVId = 2
    /\ vtokens # {}
    /\ \E p \in req.payload, u \in users :
          u.email = p.email /\ u.id \in DOMAIN plain /\ u.isVerified

-----------------------------------------------------------------------------
(* C8: a response carries a session cookie only when it is the 200/201     *)
(* answer of signup, verifyEmail, login or google, and the token in it is  *)
(* signed by the server now and embeds the id and email of a user in the   *)
(* store, the one the request names; so regenerateVerificationToken,       *)
(* forgotPassword, resetPassword, checkAuth, logout and every error        *)
(* response set none.                                                      *)
C8_CookieOnlyOnSuccess ==
    res.cookie # {} =>
        /\ req.op \in {"signup", "verifyEmail", "login", "google"}
        /\ res.status \in {200, 201}
        /\ \A tok \in res.cookie :
             /\ ServerSigned(tok)
             /\ tok.iat = now
             /\ \E u \in users :
                   /\ tok.userId = u.id
                   /\ tok.email = u.email
                   /\ IF req.op = "google"
                      THEN \E p \in req.payload : p.email = u.email
                      ELSE req.email = u.email

\* the second user of the store logs in and gets a cookie for its own id
C8_Witness ==
    /\ req.op = "login"
    /\ \E tok \in res.cookie : tok.userId = 2 /\ tok.email = req.email

-----------------------------------------------------------------------------
(* C9: the store never holds two users with one email.  signup with name   *)
(* and password for an email that has a user answers 400 'User already     *)
(* exists'; signup for such an email, whatever else it carries, creates no *)
(* user and no verification token, sends no e-mail and sets no cookie; and *)
(* google adds a user only for an email that had none.                     *)
C9_OneUserPerEmail ==
    [][/\ \A u \in users', w \in users' : u.email = w.email => u = w
       /\ (Handles("signup") /\ UserOf(req'.email) # {}) =>
            /\ res'.status = 400
            /\ (req'.name # "" /\ req'.password # "") =>
                  res'.message = "User already exists"
            /\ users' = users
            /\ vtokens' = vtokens /\ nextVId' = nextVId
            /\ res'.mails = <<>>
            /\ res'.cookie = {}
       /\ Handles("google") =>
            \A w \in users' \ users :
               w.id \notin {u.id : u \in users} => UserOf(w.email) = {}]_vars

\* signup is refused for an email that has a user
C9_Witness ==
    /\ req.op = "signup"
    /\ res.message = "User already exists"
    /\ UserOf(req.email) # {}

-----------------------------------------------------------------------------
(* C10: a reset token changes a password at most once in every             *)
(* interleaving: of two resetPassword requests that found the same token   *)
(* record, at most one has updated the user's stored password.             *)
C10_AtMostOneUpdate ==
    \A p \in Procs, q \in Procs :
       (/\ p # q
        /\ procs[p].resetToken # {}
        /\ procs[p].resetToken = procs[q].resetToken)
       => ~(procs[p].updated /\ procs[q].updated)

-----------------------------------------------------------------------------
(* C11: validation precedes every effect.  A signup, verifyEmail,          *)
(* regenerateVerificationToken, login, forgotPassword or resetPassword     *)
(* request with a missing field or an e-mail address that is not           *)
(* well-formed, and a login or forgotPassword request for an e-mail no     *)
(* user has, is answered with an error status, leaves the user table and   *)
(* both token tables as they were, sends no e-mail and sets no cookie.     *)
C11_ValidationPrecedesEffect ==
    [][(\/ /\ Handles("signup")
           /\ \/ req'.email \notin Emails
              \/ req'.name = ""
              \/ req'.password = ""
        \/ /\ Handles("verifyEmail")
           /\ req'.code = "" \/ req'.email \notin Emails
        \/ /\ Handles("regenerateVerificationToken")
           /\ req'.email \notin Emails
        \/ /\ Handles("login")
           /\ \/ req'.email \notin Emails
              \/ req'.password = ""
              \/ UserOf(req'.email) = {}
        \/ /\ Handles("forgotPassword")
           /\ req'.email \notin Emails \/ UserOf(req'.email) = {}
        \/ /\ Handles("resetPassword")
           /\ req'.token = "" \/ req'.password = "")
       => /\ res'.status >= 400
          /\ users' = users
          /\ vtokens' = vtokens
          /\ rtokens' = rtokens
          /\ res'.mails = <<>>
          /\ res'.cookie = {}]_vars

\* with users in the store, forgotPassword for an address nobody has is
\* refused
C11_Witness ==
    /\ req.op = "forgotPassword"
    /\ req.email \in Emails
    /\ UserOf(req.email) = {}
    /\ users # {}
    /\ res.status = 400
    /\ rtokens = {}

-----------------------------------------------------------------------------
(* C12: checkAuth and logout change neither the user table nor a token     *)
(* table; checkAuth sets no cookie; and checkAuth accepts a token only     *)
(* while fewer than 168 hours have passed since the server issued it, so   *)
(* repeated checkAuth calls never carry a session past 7 days.             *)
C12_CheckAuthLogoutFrame ==
    [][/\ (Handles("checkAuth") \/ Handles("logout"))
          => /\ users' = users
             /\ vtokens' = vtokens
             /\ rtokens' = rtokens
       /\ Handles("checkAuth")
          => /\ res'.cookie = {}
             /\ res'.status = 200
                => \E tok \in req'.cookie :
                      ServerSigned(tok) /\ now < tok.iat + 168]_vars

\* 168 hours after it was issued a token is refused although its user is
\* still in the store
C12_Witness ==
    /\ req.op = "checkAuth"
    /\ res.status = 401
    /\ \E tok \in req.cookie :
          /\ ServerSigned(tok)
          /\ now = tok.iat + 168
          /\ \E u \in users : u.id = tok.userId /\ u.email = tok.email

-----------------------------------------------------------------------------
(* C13: under every setting of NODE_ENV, logout clears the 'token' cookie  *)
(* with the secure, domain and path attributes generateTokenAndSetCookie   *)
(* sets it with, so that after a logout the browser holds no session       *)
(* cookie.                                                                 *)
C13_LogoutClearsTheCookieSet ==
    req.op = "logout" =>
        /\ clearCookieOptions.secure = cookieOptions.secure
        /\ clearCookieOptions.domain = cookieOptions.domain
        /\ clearCookieOptions.path = cookieOptions.path
        /\ jar = {}

-----------------------------------------------------------------------------
(* C14: signup does not roll back when a mail fails.  A signup whose       *)
(* welcome or verification e-mail fails answers with an error and sets no  *)
(* cookie, while the user and the verification token it created are in the *)
(* store; no step removes a user; and a signup for an e-mail that is in    *)
(* the store is rejected with 400 'User already exists' and adds nothing.  *)
C14_SignupKeepsRecordsOnMailFailure ==
    [][/\ (/\ Handles("signup")
           /\ res'.message \in {"Failed to send welcome email",
                                "Failed to send verification email"})
          => /\ res'.status >= 400
             /\ res'.cookie = {}
             /\ \E u \in users' \ users :
                   /\ u.email = req'.email
                   /\ \E v \in vtokens' \ vtokens : v.userId = u.id
       /\ \A u \in users :
             \E w \in users' : w.id = u.id /\ w.email = u.email
       /\ (/\ Handles("signup")
           /\ req'.name # ""
           /\ req'.password # ""
           /\ UserOf(req'.email) # {})
          => /\ res'.status = 400
             /\ res'.message = "User already exists"
             /\ users' = users
             /\ vtokens' = vtokens]_vars

\* the verification e-mail failed after the welcome e-mail went out: the
\* user and the code are stored, no cookie is set
C14_Witness ==
    /\ req.op = "signup"
    /\ res.status = 500
    /\ res.message = "Failed to send verification email"
    /\ res.cookie = {}
    /\ \E u \in UserOf(req.email) : \E v \in vtokens : v.userId = u.id

-----------------------------------------------------------------------------
(* C15: no operation revokes a session token.  In every state the server   *)
(* reaches, whatever requests came before, checkAuth answers 200 with the  *)
(* user's data for a token the server signed less than 168 hours earlier   *)
(* whose user is in the store; no step removes a user; and resetPassword   *)
(* changes nothing of a user but the password and nothing of the tables    *)
(* but the reset token it used.                                            *)
C15_NoRevocation ==
    [][/\ Handles("checkAuth") =>
            \A tok \in req'.cookie :
               (/\ ServerSigned(tok)
                /\ now < tok.iat + 168
                /\ \E u \in users : u.id = tok.userId)
               => /\ res'.status = 200
                  /\ \E u \in users :
                        /\ u.id = tok.userId
                        /\ res'.userData =
                             {[userId |-> u.id, email |-> u.email,
                               isVerified |-> u.isVerified]}
       /\ \A u \in users : \E w \in users' : w.id = u.id
       /\ Handles("resetPassword") =>
            /\ vtokens' = vtokens
            /\ rtokens' \subseteq rtokens
            /\ Cardinality(rtokens \ rtokens') <= 1
            /\ \A u \in users :
                  \E w \in users' : [w EXCEPT !.password = u.password] = u]_vars

\* the token signup issued at the start is accepted at a later instant,
\* after a reset replaced the password chosen at signup
C15_Witness ==
    /\ req.op = "checkAuth"
    /\ res.status = 200
    /\ now > 0
    /\ \E tok \in req.cookie, u \in users :
          /\ tok = JwtSign(u.id, u.email, JWT_SECRET, 0)
          /\ u.id \in DOMAIN plain
          /\ plain[u.id].stored = "pw2"

-----------------------------------------------------------------------------
(* C16: isVerified is monotonic.  No step of any handler removes a user or *)
(* turns a user's isVerified from true to false; a user that signup        *)
(* creates starts with isVerified false; and a user's isVerified turns     *)
(* true only in a verifyEmail or a google request for that user's e-mail   *)
(* that answers 200.                                                       *)
C16_IsVerifiedMonotonic ==
    [][/\ \A u \in users :
             \E w \in users' : w.id = u.id /\ (u.isVerified => w.isVerified)
       /\ Handles("signup") =>
             \A w \in users' \ users : ~w.isVerified
       /\ \A u \in users, w \in users' :
             (u.id = w.id /\ ~u.isVerified /\ w.isVerified)
             => /\ res'.status = 200
                /\ \/ Handles("verifyEmail") /\ req'.email = u.email
                   \/ /\ Handles("google")
                      /\ \E p \in req'.payload : p.email = u.email]_vars

\* a user that signup created has become verified and has since had the
\* password reset: the flag is still true
C16_Witness ==
    /\ req.op = "resetPassword"
    /\ res.status = 200
    /\ \E u \in users :
          /\ u.id \in DOMAIN plain
          /\ plain[u.id].stored = req.password
          /\ u.isVerified

-----------------------------------------------------------------------------
(* C17: regenerateVerificationToken for an unverified user adds one record *)
(* for that user that expires 24 hours later and leaves every earlier      *)
(* record in place; for a verified user it answers 400, adds no record and *)
(* sends no e-mail.  verifyEmail accepts every unexpired record of the     *)
(* user that holds the submitted code, and when it succeeds it deletes     *)
(* exactly the one record it matched, so the user's other records stay.    *)
C17_CodesAccumulate ==
    [][/\ Handles("regenerateVerificationToken") =>
            \A u \in UserOf(req'.email) :
               IF u.isVerified
               THEN /\ res'.status = 400
                    /\ vtokens' = vtokens
                    /\ res'.mails = <<>>
               ELSE \E v \in vtokens' \ vtokens :
                       /\ vtokens' = vtokens \cup {v}
                       /\ v.userId = u.id
                       /\ v.expiresAt = now + 24
       /\ Handles("verifyEmail") =>
            \A u \in UserOf(req'.email) :
               (\E v \in vtokens : /\ v.userId = u.id
                                   /\ v.token = req'.code
                                   /\ now < v.expiresAt)
               => /\ res'.status = 200
                  /\ \E v \in vtokens :
                        /\ v.userId = u.id
                        /\ v.token = req'.code
                        /\ now < v.expiresAt
                        /\ vtokens' = vtokens \ {v}]_vars

\* a code of the user was accepted and another unexpired code of the same
\* user is still in the table
C17_Witness ==
    /\ req.op = "verifyEmail"
    /\ res.status = 200
    /\ \E u \in UserOf(req.email) :
          \E v \in vtokens : v.userId = u.id /\ now < v.expiresAt

====
